---- MODULE Spec2Model ----
(***************************************************************************)
(* A model of the cazi repository: the claims accessors (pkg/claims), the   *)
(* decision model (pkg/cazi), the LocalAuthz policy, the widget             *)
(* repositories (in-memory and PostgreSQL) and the WidgetService and        *)
(* WidgetHandler of examples/widgets-service.                               *)
(*                                                                          *)
(* Go strings that are formatted, parsed or compared by content (user ids,  *)
(* widget fields, expression source text) are sequences of one-character    *)
(* strings, so that fmt.Sprintf and the CEL front end work on characters.   *)
(* Go strings that are only compared against constants (expression          *)
(* language, verb, resource type, error identity) are TLA+ strings.         *)
(*                                                                          *)
(* Go structs are records.  A record constructor lists its fields in the    *)
(* order of TLC's normal form of the record, which is not the order of the  *)
(* struct's declaration.                                                    *)
(***************************************************************************)
EXTENDS Integers, Sequences, FiniteSets, TLC

(***************************************************************************)
(* Bounds of the model                                                      *)
(***************************************************************************)
\* how many widget ids requests may name
NumWidgetIDs == 2

\* the longest path a nested accessor is constructed with
MaxPathLen == 3

\* how many entries, counted over all its mappings, a claims container holds
MaxEntries == 3

\* how many goroutines call the in-memory repository at the same time
NumGoroutines == 2

(***************************************************************************)
(* CEL front end and evaluator (github.com/google/cel-go), restricted to    *)
(* the fragment the repositories are given: string literals in single       *)
(* quotes (no escapes, no triple quotes), true/false, widget.<field>,       *)
(* ==, !=, && and || with CEL's precedence and its error-absorbing          *)
(* logical operators.                                                       *)
(***************************************************************************)
IdentChars ==
  {"a","b","c","d","e","f","g","h","i","j","k","l","m","n","o","p","q","r",
   "s","t","u","v","w","x","y","z","_","0","1","2","3","4","5","6","7","8","9"}

Tok(t, v) == [t |-> t, v |-> v]

LexFail == [ok |-> FALSE, toks |-> <<>>]

OpAt(s, i) ==
  IF i >= Len(s) THEN ""
  ELSE IF s[i] = "=" /\ s[i+1] = "=" THEN "=="
  ELSE IF s[i] = "!" /\ s[i+1] = "=" THEN "!="
  ELSE IF s[i] = "|" /\ s[i+1] = "|" THEN "||"
  ELSE IF s[i] = "&" /\ s[i+1] = "&" THEN "&&"
  ELSE ""

\* the tokens of s from position i on; ok = FALSE on a token recognition
\* error (an unterminated string literal, a character outside the grammar)
RECURSIVE Lex(_, _, _)
Lex(s, i, acc) ==
  IF i > Len(s) THEN [ok |-> TRUE, toks |-> acc]
  ELSE IF s[i] = " " THEN Lex(s, i + 1, acc)
  ELSE IF s[i] = "'" THEN
    IF \E j \in (i+1)..Len(s) : s[j] = "'"
    THEN LET j == CHOOSE j \in (i+1)..Len(s) :
                     s[j] = "'" /\ \A k \in (i+1)..(j-1) : s[k] # "'"
         IN Lex(s, j + 1, Append(acc, Tok("str", SubSeq(s, i + 1, j - 1))))
    ELSE LexFail
  ELSE IF s[i] \in IdentChars THEN
    LET j == CHOOSE j \in i..Len(s) :
                /\ \A k \in i..j : s[k] \in IdentChars
                /\ (j = Len(s) \/ s[j+1] \notin IdentChars)
    IN Lex(s, j + 1, Append(acc, Tok("id", SubSeq(s, i, j))))
  ELSE IF s[i] = "." THEN Lex(s, i + 1, Append(acc, Tok(".", <<>>)))
  ELSE IF OpAt(s, i) # "" THEN Lex(s, i + 2, Append(acc, Tok(OpAt(s, i), <<>>)))
  ELSE LexFail

\* CEL values: k = "bool" (b), "string" (a literal, s), "dyn" (a field of
\* the widget map, s), "err" (an evaluation error)
VBool(b) == [s |-> <<>>, k |-> "bool", b |-> b]
VStr(s) == [s |-> s, k |-> "string", b |-> FALSE]
VDyn(s) == [s |-> s, k |-> "dyn", b |-> FALSE]
VErr == [s |-> <<>>, k |-> "err", b |-> FALSE]

ParseFail == [v |-> VErr, ok |-> FALSE, p |-> 0]
Parsed(v, p) == [v |-> v, ok |-> TRUE, p |-> p]

\* the activation built by evaluateCEL: widget.owner_id, .id, .name,
\* .description; any other key is a "no such key" evaluation error
WidgetField(data, name) ==
  IF name = <<"o","w","n","e","r","_","i","d">> THEN VDyn(data.OwnerID)
  ELSE IF name = <<"i","d">> THEN VDyn(data.ID)
  ELSE IF name = <<"n","a","m","e">> THEN VDyn(data.Name)
  ELSE IF name = <<"d","e","s","c","r","i","p","t","i","o","n">> THEN VDyn(data.Description)
  ELSE VErr

Primary(toks, p, data) ==
  IF p > Len(toks) THEN ParseFail
  ELSE IF toks[p].t = "str" THEN Parsed(VStr(toks[p].v), p + 1)
  ELSE IF toks[p].t # "id" THEN ParseFail
  ELSE IF toks[p].v = <<"t","r","u","e">> THEN Parsed(VBool(TRUE), p + 1)
  ELSE IF toks[p].v = <<"f","a","l","s","e">> THEN Parsed(VBool(FALSE), p + 1)
  ELSE IF toks[p].v # <<"w","i","d","g","e","t">> THEN ParseFail  \* undeclared reference
  ELSE IF p + 2 <= Len(toks) /\ toks[p+1].t = "." /\ toks[p+2].t = "id"
    THEN Parsed(WidgetField(data, toks[p+2].v), p + 3)
  ELSE IF p + 1 <= Len(toks) /\ toks[p+1].t = "." THEN ParseFail
  ELSE Parsed(VErr, p + 1)   \* the map itself: not a boolean

Compare(op, l, r) ==
  IF l.k = "err" \/ r.k = "err" THEN VErr
  ELSE IF l.k = "bool" /\ r.k = "bool" THEN VBool((l.b = r.b) = (op = "=="))
  ELSE IF l.k # "bool" /\ r.k # "bool" THEN VBool((l.s = r.s) = (op = "=="))
  ELSE VBool(op # "==")

\* a relation whose left operand l and right operand r are parsed
RelationOf(op, l, r) ==
  IF ~r.ok THEN ParseFail
  ELSE IF {l.v.k, r.v.k} = {"bool", "string"} THEN ParseFail  \* no matching overload
  ELSE Parsed(Compare(op, l.v, r.v), r.p)

\* a relation whose left operand l is parsed
RelationFrom(toks, l, data) ==
  IF ~l.ok THEN ParseFail
  ELSE IF l.p <= Len(toks) /\ toks[l.p].t \in {"==", "!="}
    THEN RelationOf(toks[l.p].t, l, Primary(toks, l.p + 1, data))
  ELSE l

Relation(toks, p, data) == RelationFrom(toks, Primary(toks, p, data), data)

\* CEL's && and || are commutative and absorb an error of one operand when
\* the other operand decides the result
LogicalAnd(l, r) ==
  IF (l.k = "bool" /\ ~l.b) \/ (r.k = "bool" /\ ~r.b) THEN VBool(FALSE)
  ELSE IF l.k = "bool" /\ r.k = "bool" THEN VBool(TRUE)
  ELSE VErr

LogicalOr(l, r) ==
  IF (l.k = "bool" /\ l.b) \/ (r.k = "bool" /\ r.b) THEN VBool(TRUE)
  ELSE IF l.k = "bool" /\ r.k = "bool" THEN VBool(FALSE)
  ELSE VErr

\* the operands of && and || are boolean: a string literal is a type error
Joined(op, l, r) ==
  IF ~r.ok \/ l.v.k = "string" \/ r.v.k = "string" THEN ParseFail
  ELSE Parsed(IF op = "&&" THEN LogicalAnd(l.v, r.v) ELSE LogicalOr(l.v, r.v), r.p)

\* relation ('&&' relation)*, the first relations parsed into acc
RECURSIVE AndFrom(_, _, _)
AndFrom(toks, acc, data) ==
  IF ~acc.ok THEN ParseFail
  ELSE IF acc.p <= Len(toks) /\ toks[acc.p].t = "&&"
    THEN AndFrom(toks, Joined("&&", acc, Relation(toks, acc.p + 1, data)), data)
  ELSE acc

ConditionalAnd(toks, p, data) == AndFrom(toks, Relation(toks, p, data), data)

\* conditionalAnd ('||' conditionalAnd)*, the first ones parsed into acc
RECURSIVE OrFrom(_, _, _)
OrFrom(toks, acc, data) ==
  IF ~acc.ok THEN ParseFail
  ELSE IF acc.p <= Len(toks) /\ toks[acc.p].t = "||"
    THEN OrFrom(toks, Joined("||", acc, ConditionalAnd(toks, acc.p + 1, data)), data)
  ELSE acc

ConditionalOr(toks, p, data) == OrFrom(toks, ConditionalAnd(toks, p, data), data)

CELResult(matches, err) == [matches |-> matches, err |-> err]

\* prg.Eval and the conversion of its result to bool, r being the parse of
\* all of toks
Evaluated(toks, r) ==
  IF ~r.ok \/ r.p # Len(toks) + 1 THEN CELResult(FALSE, "CEL compilation error")
  ELSE IF r.v.k = "err" THEN CELResult(FALSE, "CEL evaluation error")
  ELSE IF r.v.k # "bool" THEN CELResult(FALSE, "CEL expression must return a boolean")
  ELSE CELResult(r.v.b, "")

Compiled(lx, data) ==
  IF ~lx.ok THEN CELResult(FALSE, "CEL compilation error")
  ELSE Evaluated(lx.toks, ConditionalOr(lx.toks, 1, data))

\* InMemoryWidgetRepository.evaluateCEL: compile, build the program, bind
\* the widget, evaluate, convert to bool
evaluateCEL(data, expression) == Compiled(Lex(expression, 1, <<>>), data)

(***************************************************************************)
(* pkg/cazi: the decision model                                             *)
(***************************************************************************)
DecisionUnknown == 0
DecisionAllow == 1
DecisionDeny == 2
DecisionConditional == 3

\* Expression{Language, Expression}; the zero value has both fields empty
Expression(language, source) == [Expression |-> source, Language |-> language]
ZeroExpression == Expression("", <<>>)

\* the Assertion one-of: ResourceReference{Type, ID}, OpaqueToken{Type, Raw},
\* Claims; ID stands for the ResourceReference's ID
ResourceReference(type, id) == [ID |-> id, kind |-> "ResourceReference", Type |-> type]
OpaqueToken == [ID |-> <<>>, kind |-> "OpaqueToken", Type |-> "jwt"]

\* Claims (map[string]any): nil, or a mapping from keys to tagged values;
\* a value [type, s] is a Go value of dynamic type `type` (s is its content
\* when it is a string)
NilClaims == [nil |-> TRUE, m |-> <<>>]
MakeClaims == [nil |-> FALSE, m |-> <<>>]
StringValue(s) == [s |-> s, type |-> "string"]
OtherValue(type) == [s |-> <<>>, type |-> type]
ZeroValue(type) == [s |-> <<>>, type |-> type]

AuthorizationContext(requester) ==
  [RequesterContext |-> requester, TransactionContext |-> NilClaims]
ZeroContext == AuthorizationContext(NilClaims)

\* CheckResponse / ListObjectsResponse {Decision, Condition, Context}
Response(decision, condition, context) ==
  [Decision |-> decision, Condition |-> condition, Context |-> context]

(***************************************************************************)
(* pkg/claims: the typed accessors                                          *)
(***************************************************************************)
\* Get without the type assertion
TopLevel_GetUntyped(key, T, claims) ==
  IF claims.nil \/ key \notin DOMAIN claims.m THEN [ok |-> FALSE, value |-> ZeroValue(T)]
  ELSE [ok |-> TRUE, value |-> claims.m[key]]

\* TopLevel[T](key).Get: a read of a nil map finds nothing; a value of
\* another dynamic type fails the type assertion
TopLevel_Get(key, T, claims) ==
  IF claims.nil \/ key \notin DOMAIN claims.m THEN [ok |-> FALSE, value |-> ZeroValue(T)]
  ELSE IF claims.m[key].type = T THEN [ok |-> TRUE, value |-> claims.m[key]]
  ELSE [ok |-> FALSE, value |-> ZeroValue(T)]

\* Set that keeps the value a key already has
TopLevel_SetIfAbsent(key, T, claims, value) ==
  IF claims.nil \/ key \in DOMAIN claims.m THEN claims
  ELSE [nil |-> FALSE,
        m |-> [k \in (DOMAIN claims.m) \cup {key} |->
                 IF k = key THEN value ELSE claims.m[k]]]

\* TopLevel[T](key).Set: the container after the call
TopLevel_Set(key, T, claims, value) ==
  IF claims.nil THEN claims
  ELSE [nil |-> FALSE,
        m |-> [k \in (DOMAIN claims.m) \cup {key} |->
                 IF k = key THEN value ELSE claims.m[k]]]

\* claims.Sub = TopLevel[string]("sub")
Sub_Get(claims) == TopLevel_Get("sub", "string", claims)

\* Set under another key than the one Get reads
Sub_SetOtherKey(claims, value) ==
  TopLevel_Set("subject", "string", claims, StringValue(value))

Sub_Set(claims, value) == TopLevel_Set("sub", "string", claims, StringValue(value))

\* a value of type map[string]any holding the entries m
MapValue(m) == [type |-> "map", m |-> m]

\* (T, bool) as Get returns it
Gotten(value, ok) == [ok |-> ok, value |-> value]

\* current[key] = value
Put(current, key, value) ==
  [k \in (DOMAIN current) \cup {key} |-> IF k = key THEN value ELSE current[k]]

\* Get that looks the last segment up where the walk starts
Nested_GetFlat(path, T, current, i) ==
  IF path[Len(path)] \notin DOMAIN current THEN Gotten(ZeroValue(T), FALSE)
  ELSE IF current[path[Len(path)]].type = T THEN Gotten(current[path[Len(path)]], TRUE)
  ELSE Gotten(ZeroValue(T), FALSE)

\* Nested[T](path...).Get: the walk from segment i, at the mapping current
RECURSIVE Nested_GetFrom(_, _, _, _)
Nested_GetFrom(path, T, current, i) ==
  IF path[i] \notin DOMAIN current THEN Gotten(ZeroValue(T), FALSE)
  ELSE IF i = Len(path)
    THEN IF current[path[i]].type = T THEN Gotten(current[path[i]], TRUE)
         ELSE Gotten(ZeroValue(T), FALSE)
  ELSE IF current[path[i]].type # "map" THEN Gotten(ZeroValue(T), FALSE)
  ELSE Nested_GetFrom(path, T, current[path[i]].m, i + 1)

\* Get that returns the value under a single-segment path without the type
\* assertion
Nested_GetUnasserted(path, T, claims) ==
  IF Len(path) = 1 /\ path[1] \in DOMAIN claims.m THEN Gotten(claims.m[path[1]], TRUE)
  ELSE Nested_GetFrom(path, T, claims.m, 1)

\* a read of a nil map finds nothing
Nested_Get(path, T, claims) == Nested_GetFrom(path, T, claims.m, 1)

\* Nested[T](path...).Set: the mapping current after the walk from segment
\* i; an intermediate mapping is created as soon as it is found missing
RECURSIVE Nested_SetFrom(_, _, _, _)

\* Set that puts a new mapping at every intermediate segment
Nested_SetFromReplacing(path, current, i, value) ==
  IF i = Len(path) THEN Put(current, path[i], value)
  ELSE IF path[i] \in DOMAIN current /\ current[path[i]].type # "map" THEN current
  ELSE Put(current, path[i], MapValue(Nested_SetFrom(path, <<>>, i + 1, value)))

\* Set that takes a value that is not a mapping for a missing segment
Nested_SetFromOverwriting(path, current, i, value) ==
  IF i = Len(path) THEN Put(current, path[i], value)
  ELSE IF path[i] \notin DOMAIN current \/ current[path[i]].type # "map"
    THEN Put(current, path[i], MapValue(Nested_SetFrom(path, <<>>, i + 1, value)))
  ELSE Put(current, path[i],
           MapValue(Nested_SetFrom(path, current[path[i]].m, i + 1, value)))

Nested_SetFrom(path, current, i, value) ==
  IF i = Len(path) THEN Put(current, path[i], value)
  ELSE IF path[i] \notin DOMAIN current
    THEN Put(current, path[i], MapValue(Nested_SetFrom(path, <<>>, i + 1, value)))
  ELSE IF current[path[i]].type # "map" THEN current
  ELSE Put(current, path[i],
           MapValue(Nested_SetFrom(path, current[path[i]].m, i + 1, value)))

\* Set without the test for a nil container
Nested_SetUnguarded(path, T, claims, value) ==
  [nil |-> FALSE, m |-> Nested_SetFrom(path, claims.m, 1, value)]

Nested_Set(path, T, claims, value) ==
  IF claims.nil THEN claims
  ELSE [nil |-> FALSE, m |-> Nested_SetFrom(path, claims.m, 1, value)]

\* the constructors: the accessor, or the panic of Nested on an empty path
Accessor(kind, path, T, panic) == [kind |-> kind, T |-> T, path |-> path, panic |-> panic]
NoClaim == Accessor("", <<>>, "", FALSE)

TopLevel(T, key) == Accessor("TopLevel", <<key>>, T, FALSE)

\* the constructor without the test of the path
NestedUnchecked(T, path) == Accessor("Nested", path, T, FALSE)

Nested(T, path) ==
  IF Len(path) = 0 THEN Accessor("", <<>>, "", TRUE)
  ELSE Accessor("Nested", path, T, FALSE)

\* cazi.Claim[T]: the Get and Set of a constructed accessor
Claim_Get(claim, claims) ==
  IF claim.kind = "TopLevel" THEN TopLevel_Get(claim.path[1], claim.T, claims)
  ELSE Nested_Get(claim.path, claim.T, claims)

Claim_Set(claim, claims, value) ==
  IF claim.kind = "TopLevel" THEN TopLevel_Set(claim.path[1], claim.T, claims, value)
  ELSE Nested_Set(claim.path, claim.T, claims, value)

\* two containers made by separate declarations: Set is given one of them
\* (target) and writes through that map reference; rest is the other one
Containers(target, rest) == [target |-> target, rest |-> rest]

\* Set that writes to every container the program holds
Containers_SetShared(claim, target, rest, value) ==
  Containers(Claim_Set(claim, target, value), Claim_Set(claim, rest, value))

Containers_Set(claim, target, rest, value) ==
  Containers(Claim_Set(claim, target, value), rest)

(***************************************************************************)
(* examples/widgets-service/infrastructure: LocalAuthz                      *)
(***************************************************************************)
\* fmt.Sprintf("widget.owner_id == '%s'", userID)
OwnerExpression(userID) ==
  <<"w","i","d","g","e","t",".","o","w","n","e","r","_","i","d"," ","=","="," ","'">>
    \o userID \o <<"'">>

Returned(resp, err) == [err |-> err, resp |-> resp]
\* a Deny response returned without the error
DenyQuietly(err) == Returned(Response(DecisionDeny, ZeroExpression, ZeroContext), "")

DenyWith(err) == Returned(Response(DecisionDeny, ZeroExpression, ZeroContext), err)

\* Check with the owner condition attached to the Allow of "create" too
LocalAuthz_CheckConditionOnAllow(req) ==
  IF req.Subject.kind # "ResourceReference"
    THEN DenyWith("subject must be a ResourceReference")
  ELSE IF req.Subject.Type # "user"
    THEN DenyWith("subject must be of type 'user'")
  ELSE IF req.Object.kind # "ResourceReference"
    THEN DenyWith("object must be a ResourceReference")
  ELSE IF req.Object.Type # "widget"
    THEN DenyWith("object must be of type 'widget'")
  ELSE IF req.Verb \in {"create", "read"}
    THEN Returned(Response(IF req.Verb = "create" THEN DecisionAllow ELSE DecisionConditional,
                           Expression("cel", OwnerExpression(req.Subject.ID)),
                           AuthorizationContext(Sub_Set(MakeClaims, req.Subject.ID))), "")
  ELSE DenyWith("unknown verb")

\* LocalAuthz.Check
LocalAuthz_Check(req) ==
  IF req.Subject.kind # "ResourceReference"
    THEN DenyWith("subject must be a ResourceReference")
  ELSE IF req.Subject.Type # "user"
    THEN DenyWith("subject must be of type 'user'")
  ELSE IF req.Object.kind # "ResourceReference"
    THEN DenyWith("object must be a ResourceReference")
  ELSE IF req.Object.Type # "widget"
    THEN DenyWith("object must be of type 'widget'")
  ELSE IF req.Verb = "create"
    THEN Returned(Response(DecisionAllow, ZeroExpression,
                           AuthorizationContext(Sub_Set(MakeClaims, req.Subject.ID))), "")
  ELSE IF req.Verb = "read"
    THEN Returned(Response(DecisionConditional,
                           Expression("cel", OwnerExpression(req.Subject.ID)),
                           AuthorizationContext(Sub_Set(MakeClaims, req.Subject.ID))), "")
  ELSE DenyWith("unknown verb")

\* LocalAuthz.ListObjects
LocalAuthz_ListObjects(req) ==
  IF req.Subject.kind # "ResourceReference"
    THEN DenyWith("subject must be a ResourceReference")
  ELSE IF req.Subject.Type # "user"
    THEN DenyWith("subject must be of type 'user'")
  ELSE IF req.ObjectType # "widget"
    THEN DenyWith("unsupported object type")
  ELSE Returned(Response(DecisionConditional,
                         Expression("cel", OwnerExpression(req.Subject.ID)),
                         AuthorizationContext(Sub_Set(MakeClaims, req.Subject.ID))), "")

(***************************************************************************)
(* examples/widgets-service/domain                                          *)
(***************************************************************************)
\* errors are identified by their outermost message; "" is nil
ErrNotFound == "widget not found"
ErrUnauthorized == "unauthorized"

NewWidget(id, name, description, ownerID) ==
  [name |-> name, id |-> id, description |-> description, ownerID |-> ownerID]

Serialize(w) ==
  [OwnerID |-> w.ownerID, ID |-> w.id, Name |-> w.name, Description |-> w.description]

DeserializeWidget(data) ==
  [name |-> data.Name, id |-> data.ID, description |-> data.Description,
   ownerID |-> data.OwnerID]

\* a repository result: the widgets found as a sequence (a nil pointer or
\* nil slice is the empty sequence) and the error
Found(ws, err) == [err |-> err, widgets |-> ws]

(***************************************************************************)
(* InMemoryWidgetRepository; store is the widgets map                       *)
(***************************************************************************)
\* Save that keeps the record an id already has
InMemory_SaveIfAbsent(store, widget) ==
  [i \in (DOMAIN store) \cup {widget.id} |->
     IF i \in DOMAIN store THEN store[i] ELSE Serialize(widget)]

InMemory_Save(store, widget) ==
  [i \in (DOMAIN store) \cup {widget.id} |->
     IF i = widget.id THEN Serialize(widget) ELSE store[i]]

evaluateExpression(data, expr) ==
  IF expr.Language = "cel" THEN evaluateCEL(data, expr.Expression)
  ELSE CELResult(FALSE, "unsupported expression language")

\* FindByID that reports a record failing the filter as forbidden
FilteredForbidden(data, r) ==
  IF r.err # "" THEN Found(<<>>, "failed to evaluate authorization expression")
  ELSE IF ~r.matches THEN Found(<<>>, "forbidden")
  ELSE Found(<<DeserializeWidget(data)>>, "")

\* FindByID once the filter has been evaluated on the stored data with
\* result r
Filtered(data, r) ==
  IF r.err # "" THEN Found(<<>>, "failed to evaluate authorization expression")
  ELSE IF ~r.matches THEN Found(<<>>, ErrNotFound)
  ELSE Found(<<DeserializeWidget(data)>>, "")

\* FindByID that takes a non-empty source text for a filter
InMemory_FindByIDBySource(store, id, authzExpression) ==
  IF id \notin DOMAIN store THEN Found(<<>>, ErrNotFound)
  ELSE IF authzExpression.Expression # <<>>
    THEN Filtered(store[id], evaluateExpression(store[id], authzExpression))
  ELSE Found(<<DeserializeWidget(store[id])>>, "")

InMemory_FindByID(store, id, authzExpression) ==
  IF id \notin DOMAIN store THEN Found(<<>>, ErrNotFound)
  ELSE IF authzExpression.Language # ""
    THEN Filtered(store[id], evaluateExpression(store[id], authzExpression))
  ELSE Found(<<DeserializeWidget(store[id])>>, "")

\* the loop of FindAll over the map in iteration order `order` (Go leaves
\* the order of a map range unspecified), from position i with results acc;
\* Visited is the loop body once the filter has given r for record i
RECURSIVE InMemory_FindAllFrom(_, _, _, _, _)
RECURSIVE Visited(_, _, _, _, _, _)

\* the loop body without the test of the filter's result
VisitedUnfiltered(store, order, i, acc, authzExpression, r) ==
  IF r.err # "" THEN Found(<<>>, "failed to evaluate authorization expression")
  ELSE InMemory_FindAllFrom(store, order, i + 1,
         Append(acc, DeserializeWidget(store[order[i]])), authzExpression)

Visited(store, order, i, acc, authzExpression, r) ==
  IF r.err # "" THEN Found(<<>>, "failed to evaluate authorization expression")
  ELSE InMemory_FindAllFrom(store, order, i + 1,
         IF r.matches THEN Append(acc, DeserializeWidget(store[order[i]])) ELSE acc,
         authzExpression)

InMemory_FindAllFrom(store, order, i, acc, authzExpression) ==
  IF i > Len(order) THEN Found(acc, "")
  ELSE Visited(store, order, i, acc, authzExpression,
               IF authzExpression.Language # ""
                 THEN evaluateExpression(store[order[i]], authzExpression)
               ELSE CELResult(TRUE, ""))

InMemory_FindAll(store, order, authzExpression) ==
  InMemory_FindAllFrom(store, order, 1, <<>>, authzExpression)

(***************************************************************************)
(* PostgresWidgetRepository; store is the widgets table keyed by id. The    *)
(* WHERE clause cel2sql produces stands for the predicate of its CEL        *)
(* source, evaluated by the database on each row.                           *)
(***************************************************************************)
\* the columns of schema.sql that the SELECT exposes under the alias widget
Columns ==
  {<<"i","d">>, <<"n","a","m","e">>, <<"d","e","s","c","r","i","p","t","i","o","n">>,
   <<"o","w","n","e","r","_","i","d">>}

ProbeData == [OwnerID |-> <<>>, ID |-> <<>>, Name |-> <<>>, Description |-> <<>>]

\* INSERT ... ON CONFLICT (id) DO UPDATE
Postgres_Save(store, widget) ==
  [i \in (DOMAIN store) \cup {Serialize(widget).ID} |->
     IF i = Serialize(widget).ID THEN Serialize(widget) ELSE store[i]]

\* expressionToSQL: the language test and celEnv.Compile come before any
\* query is sent
expressionToSQL(expr) ==
  IF expr.Language # "cel"
    THEN [err |-> "unsupported expression language", sql |-> <<>>]
  ELSE IF evaluateCEL(ProbeData, expr.Expression).err = "CEL compilation error"
    THEN [err |-> "failed to compile CEL expression", sql |-> <<>>]
  ELSE [err |-> "", sql |-> expr.Expression]

\* the database rejects a statement whose WHERE clause names a column the
\* table does not have or is not of type boolean, whatever rows it holds
StatementOK(sql) ==
  LET toks == Lex(sql, 1, <<>>).toks IN
  /\ \A p \in 1..Len(toks) :
       (toks[p].t = "id" /\ toks[p].v = <<"w","i","d","g","e","t">>) =>
         /\ p + 2 <= Len(toks)
         /\ toks[p+1].t = "."
         /\ toks[p+2].t = "id"
         /\ toks[p+2].v \in Columns
  /\ evaluateCEL(ProbeData, sql).err = ""

RowMatches(data, sql) == evaluateCEL(data, sql).matches

\* the WHERE clause of a query: the translated expression, or none
WhereClause(authzExpression) ==
  IF authzExpression.Language # "" THEN expressionToSQL(authzExpression)
  ELSE [err |-> "", sql |-> <<"t","r","u","e">>]

\* QueryRowContext(...).Scan with the clause c
Postgres_QueryRow(store, id, c) ==
  IF c.err # "" THEN Found(<<>>, "failed to convert authorization expression to SQL")
  ELSE IF ~StatementOK(c.sql) THEN Found(<<>>, "failed to query widget")
  ELSE IF id \in DOMAIN store /\ RowMatches(store[id], c.sql)
    THEN Found(<<DeserializeWidget(store[id])>>, "")
  ELSE Found(<<>>, ErrNotFound)   \* sql.ErrNoRows

Postgres_FindByID(store, id, authzExpression) ==
  Postgres_QueryRow(store, id, WhereClause(authzExpression))

\* the rows.Next loop over the result rows, which arrive in the order
\* `order` of the table's rows (the SELECT has no ORDER BY)
RECURSIVE Postgres_Rows(_, _, _, _, _)
Postgres_Rows(store, order, i, acc, sql) ==
  IF i > Len(order) THEN acc
  ELSE Postgres_Rows(store, order, i + 1,
         IF RowMatches(store[order[i]], sql)
           THEN Append(acc, DeserializeWidget(store[order[i]])) ELSE acc,
         sql)

\* QueryContext with the clause c and the scan of its rows
Postgres_Query(store, order, c) ==
  IF c.err # "" THEN Found(<<>>, "failed to convert authorization expression to SQL")
  ELSE IF ~StatementOK(c.sql) THEN Found(<<>>, "failed to query widgets")
  ELSE Found(Postgres_Rows(store, order, 1, <<>>, c.sql), "")

Postgres_FindAll(store, order, authzExpression) ==
  Postgres_Query(store, order, WhereClause(authzExpression))

(***************************************************************************)
(* domain.WidgetRepository, implemented by the repository `repo` the        *)
(* service was constructed with                                             *)
(***************************************************************************)
Repo_Save(repo, store, widget) ==
  IF repo = "InMemory" THEN InMemory_Save(store, widget) ELSE Postgres_Save(store, widget)

Repo_FindByID(repo, store, id, expr) ==
  IF repo = "InMemory" THEN InMemory_FindByID(store, id, expr)
  ELSE Postgres_FindByID(store, id, expr)

Repo_FindAll(repo, store, order, expr) ==
  IF repo = "InMemory" THEN InMemory_FindAll(store, order, expr)
  ELSE Postgres_FindAll(store, order, expr)

\* a repository call as the log of a request keeps it, and a read of the
\* repository with its result
Call(op, id, expr) == [op |-> op, id |-> id, expr |-> expr]

Query_FindByID(repo, store, id, expr) ==
  [call |-> Call("FindByID", id, expr), found |-> Repo_FindByID(repo, store, id, expr)]

Query_FindAll(repo, store, order, expr) ==
  [call |-> Call("FindAll", <<>>, expr), found |-> Repo_FindAll(repo, store, order, expr)]

(***************************************************************************)
(* application.WidgetService. `port` is what s.authz.Check / ListObjects    *)
(* returned for the request; the operators give the outcome of the call:    *)
(* the widget responses as a sequence (empty for nil), the error, the      *)
(* repository calls made and the store afterwards.                          *)
(***************************************************************************)
WidgetResponse(w) ==
  [OwnerID |-> w.ownerID, ID |-> w.id, Name |-> w.name, Description |-> w.description]

Outcome(ws, err, calls, store) ==
  [err |-> err, widgets |-> ws, store |-> store, calls |-> calls]

CheckRequest(subject, verb, object) ==
  [Subject |-> subject, Object |-> object, Verb |-> verb]

ListObjectsRequest(subject, verb, objectType) ==
  [Subject |-> subject, Verb |-> verb, ObjectType |-> objectType]

\* CreateWidget that refuses only a Deny, as GetWidget does
WidgetService_CreateWidgetNotDenied(repo, store, port, req) ==
  IF port.err # "" THEN Outcome(<<>>, "authorization check failed", <<>>, store)
  ELSE IF port.resp.Decision = DecisionDeny THEN Outcome(<<>>, ErrUnauthorized, <<>>, store)
  ELSE LET sub == Sub_Get(port.resp.Context.RequesterContext) IN
    IF ~sub.ok
      THEN Outcome(<<>>, "authorization context did not provide subject identifier",
                   <<>>, store)
    ELSE LET widget == NewWidget(req.WidgetID, req.Name, req.Description, sub.value.s)
         IN Outcome(<<WidgetResponse(widget)>>, "",
                    <<Call("Save", widget.id, ZeroExpression)>>,
                    Repo_Save(repo, store, widget))

WidgetService_CreateWidget(repo, store, port, req) ==
  IF port.err # "" THEN Outcome(<<>>, "authorization check failed", <<>>, store)
  ELSE IF port.resp.Decision # DecisionAllow THEN Outcome(<<>>, ErrUnauthorized, <<>>, store)
  ELSE LET sub == Sub_Get(port.resp.Context.RequesterContext) IN
    IF ~sub.ok
      THEN Outcome(<<>>, "authorization context did not provide subject identifier",
                   <<>>, store)
    ELSE LET widget == NewWidget(req.WidgetID, req.Name, req.Description, sub.value.s)
         IN Outcome(<<WidgetResponse(widget)>>, "",
                    <<Call("Save", widget.id, ZeroExpression)>>,
                    Repo_Save(repo, store, widget))

\* GetWidget once the query q of the repository has returned
GetWidgetFound(store, q) ==
  IF q.found.err # "" THEN Outcome(<<>>, q.found.err, <<q.call>>, store)
  ELSE Outcome(<<WidgetResponse(q.found.widgets[1])>>, "", <<q.call>>, store)

\* GetWidget that reads the repository without the condition
WidgetService_GetWidgetNoCondition(repo, store, port, req) ==
  IF port.err # "" THEN Outcome(<<>>, "authorization check failed", <<>>, store)
  ELSE IF port.resp.Decision = DecisionDeny THEN Outcome(<<>>, ErrUnauthorized, <<>>, store)
  ELSE GetWidgetFound(store, Query_FindByID(repo, store, req.WidgetID, ZeroExpression))

WidgetService_GetWidget(repo, store, port, req) ==
  IF port.err # "" THEN Outcome(<<>>, "authorization check failed", <<>>, store)
  ELSE IF port.resp.Decision = DecisionDeny THEN Outcome(<<>>, ErrUnauthorized, <<>>, store)
  ELSE GetWidgetFound(store, Query_FindByID(repo, store, req.WidgetID, port.resp.Condition))

\* ListWidgets once the query q of the repository has returned
ListWidgetsFound(store, q) ==
  IF q.found.err # "" THEN Outcome(<<>>, "failed to list widgets", <<q.call>>, store)
  ELSE Outcome([i \in 1..Len(q.found.widgets) |-> WidgetResponse(q.found.widgets[i])],
               "", <<q.call>>, store)

\* ListWidgets without the test for Deny
WidgetService_ListWidgetsNoDeny(repo, store, order, port, req) ==
  IF port.err # "" THEN Outcome(<<>>, "authorization check failed", <<>>, store)
  ELSE ListWidgetsFound(store, Query_FindAll(repo, store, order, port.resp.Condition))

WidgetService_ListWidgets(repo, store, order, port, req) ==
  IF port.err # "" THEN Outcome(<<>>, "authorization check failed", <<>>, store)
  ELSE IF port.resp.Decision = DecisionDeny THEN Outcome(<<>>, ErrUnauthorized, <<>>, store)
  ELSE ListWidgetsFound(store, Query_FindAll(repo, store, order, port.resp.Condition))

(***************************************************************************)
(* presentation.WidgetHandler: the status and the error message (or "" with *)
(* the widgets as body) written for an outcome of the service               *)
(***************************************************************************)
HTTP(status, message, body) == [status |-> status, message |-> message, body |-> body]

WidgetHandler_CreateWidget(out) ==
  IF out.err = ErrUnauthorized THEN HTTP(403, "access denied", <<>>)
  ELSE IF out.err # "" THEN HTTP(500, "internal server error", <<>>)
  ELSE HTTP(201, "", out.widgets)

WidgetHandler_GetWidget(out) ==
  IF out.err = ErrNotFound THEN HTTP(404, "widget not found", <<>>)
  ELSE IF out.err # "" THEN HTTP(500, "internal server error", <<>>)
  ELSE HTTP(200, "", out.widgets)

WidgetHandler_ListWidgets(out) ==
  IF out.err = ErrUnauthorized THEN HTTP(403, "access denied", <<>>)
  ELSE IF out.err # "" THEN HTTP(500, "internal server error", <<>>)
  ELSE HTTP(200, "", out.widgets)

(***************************************************************************)
(* The inputs of the model                                                  *)
(***************************************************************************)
Digits == <<"1", "2", "3", "4", "5", "6", "7", "8", "9">>
WidgetIDs == {<<Digits[i]>> : i \in 1..NumWidgetIDs}

\* user ids: two plain ones, one that ends in a quote, and one that closes
\* the literal and continues the expression:  '||'a'=='a
QuoteID == <<"a", "'">>
ClosingID == <<"'", "|", "|", "'", "a", "'", "=", "=", "'", "a">>
UserIDs == {<<"a">>, <<"b">>, QuoteID, ClosingID}

Names == {<<"n">>, <<"m">>}
Descriptions == {<<"d">>}

Subjects ==
  {ResourceReference("user", u) : u \in UserIDs}
    \cup {ResourceReference("group", <<"a">>), OpaqueToken}

Objects ==
  {ResourceReference("widget", i) : i \in WidgetIDs}
    \cup {ResourceReference("gadget", <<"1">>), OpaqueToken}

Verbs == {"create", "read", "delete"}
ObjectTypes == {"widget", "gadget"}

\* expression sources handed to a repository directly: the policy's
\* expressions, a filter on another field, a key the widget map does not
\* have, a string-valued expression, and the empty text
Sources ==
  {OwnerExpression(u) : u \in UserIDs}
    \cup { <<"w","i","d","g","e","t",".","n","a","m","e"," ","!","="," ","'","n","'">>,
           <<"w","i","d","g","e","t",".","f","o","o"," ","=","="," ","'","a","'">>,
           <<"'","a","'">>,
           <<>> }
Languages == {"", "cel", "rego"}
Expressions == {Expression(l, src) : l \in Languages, src \in Sources}

\* what a port other than LocalAuthz may return
StubContexts ==
  {NilClaims, Sub_Set(MakeClaims, <<"a">>),
   TopLevel_Set("sub", "int", MakeClaims, OtherValue("int"))}
StubReturns ==
  {Returned(Response(d, c, AuthorizationContext(x)), e) :
     d \in {DecisionUnknown, DecisionAllow, DecisionDeny, DecisionConditional},
     c \in {ZeroExpression, Expression("cel", OwnerExpression(<<"a">>))},
     x \in StubContexts,
     e \in {"", "port unavailable"}}

\* the claims accessors: keys, types, paths and the values stored by Set
Keys == {"a", "b"}
Types == {"string", "int"}
Paths == UNION {[1..n -> Keys] : n \in 1..MaxPathLen}
ValuesOf(T) == IF T = "string" THEN {StringValue(<<"x">>)} ELSE {OtherValue(T)}

\* the number of entries of the mapping m and of the mappings below it
RECURSIVE Entries(_)
Entries(m) ==
  IF DOMAIN m = {} THEN 0
  ELSE LET k == CHOOSE x \in DOMAIN m : TRUE IN
       1 + (IF m[k].type = "map" THEN Entries(m[k].m) ELSE 0)
         + Entries([x \in (DOMAIN m) \ {k} |-> m[x]])

\* the orders in which the records with ids S can be enumerated
Orders(S) ==
  {o \in [1..Cardinality(S) -> S] : \A i, j \in 1..Cardinality(S) : o[i] = o[j] => i = j}

(***************************************************************************)
(* State                                                                    *)
(***************************************************************************)
VARIABLES
  widgets,   \* the repository's content: widget id -> WidgetData
  repo,      \* the repository the service was constructed with
  authz,     \* the port the service was constructed with
  lastOp,    \* the operation that has returned and whose outcome the caller
             \* is looking at; "Idle" between calls
  lastReq,   \* its request
  lastPort,  \* what the port returned to it (called = FALSE: not asked)
  lastOut,   \* what it returned: widgets, error, repository calls made
  lastHTTP,  \* what the handler wrote (status 0: no handler involved)
  claims,    \* a claims container (cazi.Claims)
  other,     \* a second container, created by its own declaration or make
  claim,     \* the accessor constructed last (NoClaim: none)
  access,    \* the last operation on the accessors: what was constructed,
             \* read or written
  mu,        \* InMemoryWidgetRepository.mu: the goroutine holding the write
             \* lock (0: none) and the goroutines holding read locks
  running    \* per goroutine, the repository call it is in and its locals

claimVars == <<claims, other, claim, access>>
lockVars == <<mu, running>>
serviceVars == <<widgets, repo, authz, lastOp, lastReq, lastPort, lastOut, lastHTTP>>
vars == <<widgets, repo, authz, lastOp, lastReq, lastPort, lastOut, lastHTTP,
          claims, other, claim, access, mu, running>>

NoAssertion == [ID |-> <<>>, kind |-> "", Type |-> ""]
\* Canceled: the context the call was given is canceled (ctx.Err() # nil)
NoReq ==
  [OwnerID |-> <<>>, Name |-> <<>>, Description |-> <<>>, Subject |-> NoAssertion,
   Object |-> NoAssertion, Verb |-> "", ObjectType |-> "", WidgetID |-> <<>>,
   UserID |-> <<>>, Expr |-> ZeroExpression, Canceled |-> FALSE]
NoPort ==
  [err |-> "", resp |-> Response(DecisionUnknown, ZeroExpression, ZeroContext),
   called |-> FALSE]
Asked(port) == [err |-> port.err, resp |-> port.resp, called |-> TRUE]
Out(ws, err, calls) == [err |-> err, widgets |-> ws, calls |-> calls]
NoHTTP == HTTP(0, "", <<>>)

\* what s.authz returns: LocalAuthz's answer, or any answer of another port
\* a port that refuses to create a widget whose id it finds stored
Port_CheckStored(req) ==
  IF authz # "LocalAuthz" THEN StubReturns
  ELSE IF req.Verb = "create" /\ req.Object.ID \in DOMAIN widgets
    THEN {DenyWith("widget exists")}
  ELSE {LocalAuthz_Check(req)}

Port_Check(req) ==
  IF authz = "LocalAuthz" THEN {LocalAuthz_Check(req)} ELSE StubReturns

Port_ListObjects(req) ==
  IF authz = "LocalAuthz" THEN {LocalAuthz_ListObjects(req)} ELSE StubReturns

\* the subjects the service is called with: LocalAuthz decides by the
\* subject; another port's answer is independent of it, so one subject
\* stands for all
Callers ==
  IF authz = "LocalAuthz" THEN Subjects ELSE {ResourceReference("user", <<"a">>)}

\* the record of an operation on the accessors: the operation, the path it
\* named, the value Set stored and the container before it, what Get
\* returned, whether the constructor panicked, and whether the container
\* is as the accessor's last Set left it
Access(op, path, value, before, got, panic, fresh) ==
  [op |-> op, value |-> value, path |-> path, panic |-> panic, before |-> before,
   got |-> got, fresh |-> fresh]
NoValue == ZeroValue("")
NoAccess == Access("", <<>>, NoValue, NilClaims, Gotten(NoValue, FALSE), FALSE, FALSE)

NoClaims ==
  /\ claims = NilClaims
  /\ other = NilClaims
  /\ claim = NoClaim
  /\ access = NoAccess

\* the goroutines, the RWMutex and a goroutine's call: the method it is in
\* (op), where it is in the method (pc), its arguments (widget, or id and
\* expr), the ids its range loop has visited and what it returns
Goroutines == 1..NumGoroutines
RWMutex(writer, readers) == [writer |-> writer, readers |-> readers]
NoCall ==
  [op |-> "", id |-> <<>>, widget |-> DeserializeWidget(ProbeData), expr |-> ZeroExpression,
   found |-> Found(<<>>, ""), pc |-> "idle", visited |-> {}]

NoCalls ==
  /\ mu = RWMutex(0, {})
  /\ running = [g \in Goroutines |-> NoCall]

Wiring(a) ==
  /\ widgets = <<>>
  /\ repo \in {"InMemory", "Postgres"}
  /\ authz = a
  /\ lastOp = "Idle"
  /\ lastReq = NoReq
  /\ lastPort = NoPort
  /\ lastOut = Out(<<>>, "", <<>>)
  /\ lastHTTP = NoHTTP
  /\ NoClaims
  /\ NoCalls

\* main.go and the tests: NewWidgetService(repo, NewLocalAuthz())
Init == Wiring("LocalAuthz")

\* NewWidgetService(repo, authz) with another implementation of cazi.Interface
InitPort == Wiring("Port")

\* what the handler `op` writes for the service outcome out; nothing for an
\* operation that is not a handler
Written(op, out) ==
  IF op = "HandleCreateWidget" THEN WidgetHandler_CreateWidget(out)
  ELSE IF op = "HandleGetWidget" THEN WidgetHandler_GetWidget(out)
  ELSE IF op = "HandleListWidgets" THEN WidgetHandler_ListWidgets(out)
  ELSE NoHTTP

\* operation op, given req, returns out after the port returned port
Returns(op, req, port, out) ==
  /\ widgets' = out.store
  /\ lastOp' = op
  /\ lastReq' = req
  /\ lastPort' = port
  /\ lastOut' = Out(out.widgets, out.err, out.calls)
  /\ lastHTTP' = Written(op, out)
  /\ UNCHANGED <<repo, authz, claimVars, lockVars>>

\* a handler rejects the request before it calls the service
Rejected(op, req, http) ==
  /\ lastOp' = op
  /\ lastReq' = req
  /\ lastPort' = NoPort
  /\ lastOut' = Out(<<>>, "", <<>>)
  /\ lastHTTP' = http
  /\ UNCHANGED <<widgets, repo, authz, claimVars, lockVars>>

\* the outcome of a read q of the repository
Read(q) == Outcome(q.found.widgets, q.found.err, <<q.call>>, widgets)

(***************************************************************************)
(* Operations of the repository, called directly                            *)
(***************************************************************************)
Save ==
  /\ lastOp = "Idle"
  /\ \E id \in WidgetIDs, name \in Names, description \in Descriptions, owner \in UserIDs :
       Returns("Save",
               [NoReq EXCEPT !.WidgetID = id, !.Name = name,
                             !.Description = description, !.OwnerID = owner],
               NoPort,
               Outcome(<<>>, "", <<Call("Save", id, ZeroExpression)>>,
                       Repo_Save(repo, widgets, NewWidget(id, name, description, owner))))

FindByID ==
  /\ lastOp = "Idle"
  /\ \E id \in WidgetIDs, expr \in Expressions :
       Returns("FindByID", [NoReq EXCEPT !.WidgetID = id, !.Expr = expr], NoPort,
               Read(Query_FindByID(repo, widgets, id, expr)))

FindAll ==
  /\ lastOp = "Idle"
  /\ \E expr \in Expressions, order \in Orders(DOMAIN widgets) :
       Returns("FindAll", [NoReq EXCEPT !.Expr = expr], NoPort,
               Read(Query_FindAll(repo, widgets, order, expr)))

(***************************************************************************)
(* Operations of LocalAuthz, called directly, with a live or a canceled     *)
(* context; neither method reads its ctx parameter                          *)
(***************************************************************************)
Check ==
  /\ lastOp = "Idle"
  /\ \E subject \in Subjects, verb \in Verbs, object \in Objects, canceled \in BOOLEAN :
       Returns("Check",
               [NoReq EXCEPT !.Subject = subject, !.Verb = verb, !.Object = object,
                             !.Canceled = canceled],
               Asked(LocalAuthz_Check(CheckRequest(subject, verb, object))),
               Outcome(<<>>, "", <<>>, widgets))

ListObjects ==
  /\ lastOp = "Idle"
  /\ \E subject \in Subjects, verb \in Verbs, objectType \in ObjectTypes,
        canceled \in BOOLEAN :
       Returns("ListObjects",
               [NoReq EXCEPT !.Subject = subject, !.Verb = verb, !.ObjectType = objectType,
                             !.Canceled = canceled],
               Asked(LocalAuthz_ListObjects(ListObjectsRequest(subject, verb, objectType))),
               Outcome(<<>>, "", <<>>, widgets))

(***************************************************************************)
(* Operations of the WidgetService                                          *)
(***************************************************************************)
CreateWidgetRequest(subject, id, name, description) ==
  [NoReq EXCEPT !.Subject = subject, !.WidgetID = id, !.Name = name,
                !.Description = description]

GetWidgetRequest(subject, id) == [NoReq EXCEPT !.Subject = subject, !.WidgetID = id]

ListWidgetsRequest(subject) == [NoReq EXCEPT !.Subject = subject]

\* the service's calls of the port
CreateCheck(req) ==
  Port_Check(CheckRequest(req.Subject, "create", ResourceReference("widget", req.WidgetID)))

ReadCheck(req) ==
  Port_Check(CheckRequest(req.Subject, "read", ResourceReference("widget", req.WidgetID)))

ReadList(req) == Port_ListObjects(ListObjectsRequest(req.Subject, "read", "widget"))

CreateWidgetCall(op, req) ==
  \E port \in CreateCheck(req) :
    Returns(op, req, Asked(port), WidgetService_CreateWidget(repo, widgets, port, req))

GetWidgetCall(op, req) ==
  \E port \in ReadCheck(req) :
    Returns(op, req, Asked(port), WidgetService_GetWidget(repo, widgets, port, req))

ListWidgetsCall(op, req) ==
  \E port \in ReadList(req), order \in Orders(DOMAIN widgets) :
    Returns(op, req, Asked(port),
            WidgetService_ListWidgets(repo, widgets, order, port, req))

CreateWidget ==
  /\ lastOp = "Idle"
  /\ \E subject \in Callers, id \in WidgetIDs, name \in Names, description \in Descriptions :
       CreateWidgetCall("CreateWidget", CreateWidgetRequest(subject, id, name, description))

GetWidget ==
  /\ lastOp = "Idle"
  /\ \E subject \in Callers, id \in WidgetIDs :
       GetWidgetCall("GetWidget", GetWidgetRequest(subject, id))

ListWidgets ==
  /\ lastOp = "Idle"
  /\ \E subject \in Callers :
       ListWidgetsCall("ListWidgets", ListWidgetsRequest(subject))

(***************************************************************************)
(* Operations of the WidgetHandler: the subject is built from the           *)
(* X-User-ID header, the service is called, the outcome is written          *)
(***************************************************************************)
\* the values of the X-User-ID header; the empty one is a missing header
HeaderUserIDs ==
  IF authz = "LocalAuthz" THEN UserIDs \cup {<<>>} ELSE {<<"a">>, <<>>}

MissingUser == HTTP(401, "missing X-User-ID header", <<>>)

HandleCreateWidget ==
  /\ lastOp = "Idle"
  /\ \E userID \in HeaderUserIDs, id \in WidgetIDs, name \in Names,
        description \in Descriptions :
       IF userID = <<>>
         THEN Rejected("HandleCreateWidget",
                       [CreateWidgetRequest(NoAssertion, id, name, description)
                          EXCEPT !.UserID = userID],
                       MissingUser)
       ELSE CreateWidgetCall("HandleCreateWidget",
              [CreateWidgetRequest(ResourceReference("user", userID), id, name, description)
                 EXCEPT !.UserID = userID])

HandleGetWidget ==
  /\ lastOp = "Idle"
  /\ \E userID \in HeaderUserIDs, id \in WidgetIDs \cup {<<>>} :
       IF userID = <<>>
         THEN Rejected("HandleGetWidget",
                       [GetWidgetRequest(NoAssertion, id) EXCEPT !.UserID = userID],
                       MissingUser)
       ELSE IF id = <<>>
         THEN Rejected("HandleGetWidget",
                       [GetWidgetRequest(ResourceReference("user", userID), id)
                          EXCEPT !.UserID = userID],
                       HTTP(400, "missing widget ID", <<>>))
       ELSE GetWidgetCall("HandleGetWidget",
              [GetWidgetRequest(ResourceReference("user", userID), id)
                 EXCEPT !.UserID = userID])

HandleListWidgets ==
  /\ lastOp = "Idle"
  /\ \E userID \in HeaderUserIDs :
       IF userID = <<>>
         THEN Rejected("HandleListWidgets",
                       [ListWidgetsRequest(NoAssertion) EXCEPT !.UserID = userID],
                       MissingUser)
       ELSE ListWidgetsCall("HandleListWidgets",
              [ListWidgetsRequest(ResourceReference("user", userID))
                 EXCEPT !.UserID = userID])

\* the caller has taken the outcome; the next call can start
Return ==
  /\ lastOp # "Idle"
  /\ lastOp' = "Idle"
  /\ lastReq' = NoReq
  /\ lastPort' = NoPort
  /\ lastOut' = Out(<<>>, "", <<>>)
  /\ lastHTTP' = NoHTTP
  /\ UNCHANGED <<widgets, repo, authz, claimVars, lockVars>>

Next ==
  \/ Save
  \/ FindByID
  \/ FindAll
  \/ Check
  \/ ListObjects
  \/ CreateWidget
  \/ GetWidget
  \/ ListWidgets
  \/ HandleCreateWidget
  \/ HandleGetWidget
  \/ HandleListWidgets
  \/ Return

Spec == Init /\ [][Next]_vars

SpecPort == InitPort /\ [][Next]_vars

(***************************************************************************)
(* Operations on the claims accessors, as the tests of pkg/claims and the   *)
(* policy use them: a container is declared or made, an accessor is         *)
(* constructed, and its Get and Set are called on the container             *)
(***************************************************************************)
\* var c cazi.Claims, or c := make(cazi.Claims)
NewClaims ==
  /\ \E c \in {NilClaims, MakeClaims} : claims' = c
  /\ access' = Access("Claims", <<>>, NoValue, claims, Gotten(NoValue, FALSE), FALSE, FALSE)
  /\ UNCHANGED <<other, claim, serviceVars, lockVars>>

Constructed(op, path, made) ==
  /\ claim' = IF made.panic THEN NoClaim ELSE made
  /\ access' = Access(op, path, NoValue, claims, Gotten(NoValue, FALSE), made.panic, FALSE)
  /\ UNCHANGED <<claims, other, serviceVars, lockVars>>

NewTopLevel ==
  \E key \in Keys, T \in Types : Constructed("TopLevel", <<key>>, TopLevel(T, key))

NewNested ==
  \E path \in Paths \cup {<<>>}, T \in Types : Constructed("Nested", path, Nested(T, path))

ClaimGet ==
  /\ claim # NoClaim
  /\ access' = Access("Get", claim.path, access.value, access.before,
                      Claim_Get(claim, claims), FALSE, access.fresh)
  /\ UNCHANGED <<claims, other, claim, serviceVars, lockVars>>

\* claim.Set(claims, value) while the container other exists
ClaimSet ==
  /\ claim # NoClaim
  /\ \E value \in ValuesOf(claim.T) :
       /\ claims' = Containers_Set(claim, claims, other, value).target
       /\ other' = Containers_Set(claim, claims, other, value).rest
       /\ Entries(claims'.m) + Entries(other'.m) <= MaxEntries
       /\ access' = Access("Set", claim.path, value, claims, Gotten(NoValue, FALSE),
                           FALSE, TRUE)
  /\ UNCHANGED <<claim, serviceVars, lockVars>>

\* var c2 cazi.Claims, or c2 := make(cazi.Claims)
NewOther ==
  /\ \E c \in {NilClaims, MakeClaims} : other' = c
  /\ UNCHANGED <<claims, claim, access, serviceVars, lockVars>>

\* claim.Set(other, value) while the container claims exists
OtherSet ==
  /\ claim # NoClaim
  /\ \E value \in ValuesOf(claim.T) :
       /\ other' = Containers_Set(claim, other, claims, value).target
       /\ claims' = Containers_Set(claim, other, claims, value).rest
       /\ Entries(claims'.m) + Entries(other'.m) <= MaxEntries
  /\ UNCHANGED <<claim, access, serviceVars, lockVars>>

NextClaims ==
  \/ NewClaims
  \/ NewTopLevel
  \/ NewNested
  \/ ClaimGet
  \/ ClaimSet

InitClaims ==
  /\ widgets = <<>>
  /\ repo = "InMemory"
  /\ authz = "LocalAuthz"
  /\ lastOp = "Idle"
  /\ lastReq = NoReq
  /\ lastPort = NoPort
  /\ lastOut = Out(<<>>, "", <<>>)
  /\ lastHTTP = NoHTTP
  /\ NoClaims
  /\ NoCalls

SpecClaims == InitClaims /\ [][NextClaims]_vars

\* two containers and the accessors' Set on either, as in the test
\* "Claims are independent"
NextContainers ==
  \/ NewClaims
  \/ NewOther
  \/ NewTopLevel
  \/ NewNested
  \/ ClaimSet
  \/ OtherSet

SpecContainers == InitClaims /\ [][NextContainers]_vars

(***************************************************************************)
(* InMemoryWidgetRepository called from several goroutines. A goroutine     *)
(* takes one step at a time: it enters a method, takes the lock, reads or   *)
(* writes the map, releases the lock and returns. The assignment of a       *)
(* WidgetData (four strings) to a map entry is not one memory operation:    *)
(* it is done in two steps, which only a goroutine that does not hold the   *)
(* lock could tell apart.                                                   *)
(***************************************************************************)
\* the widgets the goroutines save: two versions of widget 1, which differ
\* in name and owner, and one of widget 2
SavedWidgets ==
  {NewWidget(<<"1">>, <<"n">>, <<"d">>, <<"a">>),
   NewWidget(<<"1">>, <<"m">>, <<"d">>, <<"b">>),
   NewWidget(<<"2">>, <<"n">>, <<"d">>, <<"a">>)}

\* the ids the goroutines look up
SavedIDs == {w.id : w \in SavedWidgets}

\* the filters the goroutines read with: none, and the policy's for user a
Filters == {ZeroExpression, Expression("cel", OwnerExpression(<<"a">>))}

\* sync.RWMutex: Lock waits for the writer and the readers to leave
MayLock(m) == m.writer = 0 /\ m.readers = {}

\* RLock that does not wait for the writer
MayRLockAlways(m) == TRUE

\* sync.RWMutex: RLock waits for the writer to leave
MayRLock(m) == m.writer = 0

\* the entry of id when the first words (ID, Name) of data are assigned
\* and the others still hold what they held (the zero value in a new entry)
HalfAssigned(store, id, data) ==
  [i \in (DOMAIN store) \cup {id} |->
     IF i # id THEN store[i]
     ELSE [OwnerID |-> IF id \in DOMAIN store THEN store[id].OwnerID ELSE <<>>, ID |-> data.ID,
           Name |-> data.Name,
           Description |-> IF id \in DOMAIN store THEN store[id].Description ELSE <<>>]]

\* the call c after the iteration of the range loop over the entry id has
\* given r: an error ends the loop
Iterated(c, id, r) ==
  [c EXCEPT !.pc = IF r.err # "" THEN "RUnlock" ELSE "Range",
            !.visited = c.visited \cup {id},
            !.found = r]

\* goroutine g moves on in its call, which becomes c
Moves(g, c) ==
  /\ running' = [running EXCEPT ![g] = c]
  /\ UNCHANGED <<repo, authz, lastOp, lastReq, lastPort, lastOut, lastHTTP, claimVars>>

\* go repo.Save(ctx, widget)
GoSave(g) ==
  /\ running[g].pc = "idle"
  /\ \E widget \in SavedWidgets :
       Moves(g, [NoCall EXCEPT !.op = "Save", !.pc = "Lock", !.widget = widget,
                               !.id = widget.id])
  /\ UNCHANGED <<widgets, mu>>

\* r.mu.Lock()
Lock(g) ==
  /\ running[g].pc = "Lock"
  /\ MayLock(mu)
  /\ mu' = RWMutex(g, mu.readers)
  /\ Moves(g, [running[g] EXCEPT !.pc = "Assign"])
  /\ UNCHANGED widgets

\* r.widgets[widget.ID()] = data, the first words
Assign(g) ==
  /\ running[g].pc = "Assign"
  /\ widgets' = HalfAssigned(widgets, running[g].id, Serialize(running[g].widget))
  /\ Moves(g, [running[g] EXCEPT !.pc = "Assigned"])
  /\ UNCHANGED mu

\* r.widgets[widget.ID()] = data, the whole entry
Assigned(g) ==
  /\ running[g].pc = "Assigned"
  /\ widgets' = InMemory_Save(widgets, running[g].widget)
  /\ Moves(g, [running[g] EXCEPT !.pc = "Unlock"])
  /\ UNCHANGED mu

\* the deferred r.mu.Unlock() and the return
Unlock(g) ==
  /\ running[g].pc = "Unlock"
  /\ mu' = RWMutex(0, mu.readers)
  /\ Moves(g, NoCall)
  /\ UNCHANGED widgets

\* go repo.FindByID(ctx, id, expr)
GoFindByID(g) ==
  /\ running[g].pc = "idle"
  /\ \E id \in SavedIDs, expr \in Filters :
       Moves(g, [NoCall EXCEPT !.op = "FindByID", !.pc = "RLock", !.id = id,
                               !.expr = expr])
  /\ UNCHANGED <<widgets, mu>>

\* go repo.FindAll(ctx, expr)
GoFindAll(g) ==
  /\ running[g].pc = "idle"
  /\ \E expr \in Filters :
       Moves(g, [NoCall EXCEPT !.op = "FindAll", !.pc = "RLock", !.expr = expr])
  /\ UNCHANGED <<widgets, mu>>

\* r.mu.RLock()
RLock(g) ==
  /\ running[g].pc = "RLock"
  /\ MayRLock(mu)
  /\ mu' = RWMutex(mu.writer, mu.readers \cup {g})
  /\ Moves(g, [running[g] EXCEPT !.pc = IF running[g].op = "FindByID" THEN "Read" ELSE "Range"])
  /\ UNCHANGED widgets

\* FindByID: data, exists := r.widgets[id], and the filter on the copy
ReadEntry(g) ==
  /\ running[g].pc = "Read"
  /\ Moves(g, [running[g] EXCEPT
                 !.pc = "RUnlock",
                 !.found = InMemory_FindByID(widgets, running[g].id, running[g].expr)])
  /\ UNCHANGED <<widgets, mu>>

\* FindAll: one iteration of the range over r.widgets, on an entry not yet
\* visited, or the end of the loop
Range(g) ==
  /\ running[g].pc = "Range"
  /\ IF DOMAIN widgets \subseteq running[g].visited
       THEN Moves(g, [running[g] EXCEPT !.pc = "RUnlock"])
     ELSE \E id \in (DOMAIN widgets) \ running[g].visited :
            Moves(g, Iterated(running[g], id,
                              InMemory_FindAllFrom(widgets, <<id>>, 1,
                                                   running[g].found.widgets, running[g].expr)))
  /\ UNCHANGED <<widgets, mu>>

\* the deferred r.mu.RUnlock() and the return
RUnlock(g) ==
  /\ running[g].pc = "RUnlock"
  /\ mu' = RWMutex(mu.writer, mu.readers \ {g})
  /\ Moves(g, NoCall)
  /\ UNCHANGED widgets

NextInMemory ==
  \E g \in Goroutines :
    \/ GoSave(g)
    \/ Lock(g)
    \/ Assign(g)
    \/ Assigned(g)
    \/ Unlock(g)
    \/ GoFindByID(g)
    \/ GoFindAll(g)
    \/ RLock(g)
    \/ ReadEntry(g)
    \/ Range(g)
    \/ RUnlock(g)

SpecInMemory == InitClaims /\ [][NextInMemory]_vars

(***************************************************************************)
(* Properties                                                               *)
(***************************************************************************)
\* what the last operation returned, as the repository returns it
Got == Found(lastOut.widgets, lastOut.err)

\* the filter is in a supported language and evaluates to false on data
FailsFilter(data, expr) ==
  expr.Language = "cel" /\ evaluateCEL(data, expr.Expression) = CELResult(FALSE, "")

\* the last operation was op by a user, through the service or the handler
ByUser(ops) ==
  /\ lastOp \in ops
  /\ lastPort.called
  /\ lastReq.Subject.kind = "ResourceReference"
  /\ lastReq.Subject.Type = "user"

\* C1: FindByID on a stored id whose record fails a filter in a supported
\* language returns the ErrNotFound sentinel and no record, exactly what
\* FindByID returns with the same filter for every id that is not stored.
C1_RepositoryHidesFiltered ==
  (/\ lastOp = "FindByID"
   /\ lastReq.WidgetID \in DOMAIN widgets
   /\ FailsFilter(widgets[lastReq.WidgetID], lastReq.Expr))
  => /\ Got = Found(<<>>, ErrNotFound)
     /\ \A id \in WidgetIDs \ DOMAIN widgets :
          Repo_FindByID(repo, widgets, id, lastReq.Expr) = Got

C1_Witness ==
  /\ lastOp = "FindByID"
  /\ lastReq.WidgetID \in DOMAIN widgets
  /\ FailsFilter(widgets[lastReq.WidgetID], lastReq.Expr)
  /\ WidgetIDs \ DOMAIN widgets # {}

\* the operations of the service, called directly or by the handler
GetOps == {"GetWidget", "HandleGetWidget"}
ListOps == {"ListWidgets", "HandleListWidgets"}
CreateOps == {"CreateWidget", "HandleCreateWidget"}

\* what GetWidget by the subject of the last request returns for id
GetWidgetFor(id, port) ==
  WidgetService_GetWidget(repo, widgets, port, GetWidgetRequest(lastReq.Subject, id))

AnswerFor(id) ==
  LocalAuthz_Check(CheckRequest(lastReq.Subject, "read", ResourceReference("widget", id)))

SameOutcome(out) ==
  /\ out.err = lastOut.err
  /\ out.widgets = lastOut.widgets
  /\ WidgetHandler_GetWidget(out) = WidgetHandler_GetWidget(lastOut)

\* C2: GetWidget by user u for a stored widget of another owner returns
\* ErrNotFound and no widget (the handler: 404 "widget not found"), the
\* same result as GetWidget by u for every id that was never created.
C2_EndToEndHiding ==
  (/\ ByUser(GetOps)
   /\ lastReq.WidgetID \in DOMAIN widgets
   /\ widgets[lastReq.WidgetID].OwnerID # lastReq.Subject.ID)
  => /\ lastOut.err = ErrNotFound
     /\ lastOut.widgets = <<>>
     /\ lastOp = "HandleGetWidget" => lastHTTP = HTTP(404, "widget not found", <<>>)
     /\ \A id \in WidgetIDs \ DOMAIN widgets : SameOutcome(GetWidgetFor(id, AnswerFor(id)))

\* the single repository call op of the last request carried the condition
\* of the port's response
CalledWithCondition(op) ==
  /\ Len(lastOut.calls) = 1
  /\ lastOut.calls[1].op = op
  /\ lastOut.calls[1].expr.Language = lastPort.resp.Condition.Language
  /\ lastOut.calls[1].expr.Expression = lastPort.resp.Condition.Expression

\* C3: when Check (ListObjects) returns a Conditional decision, the
\* expression GetWidget hands to FindByID (ListWidgets to FindAll) has the
\* language and the source text of the response's condition.
C3_ConditionUnchanged ==
  (/\ lastOp \in GetOps \cup ListOps
   /\ lastPort.called
   /\ lastPort.err = ""
   /\ lastPort.resp.Decision = DecisionConditional)
  => CalledWithCondition(IF lastOp \in GetOps THEN "FindByID" ELSE "FindAll")

C3_Witness ==
  /\ lastOp = "GetWidget"
  /\ lastPort.called
  /\ lastPort.err = ""
  /\ lastPort.resp.Decision = DecisionConditional
  /\ lastPort.resp.Condition.Language = "cel"
  /\ Len(lastOut.calls) = 1
  /\ lastReq.WidgetID \in DOMAIN widgets

\* C4: when the port's response is Deny, GetWidget and ListWidgets make no
\* repository call and return no widget; they return ErrUnauthorized when
\* the port returned the Deny response without an error.
C4_DenyNeverQueries ==
  (/\ lastOp \in GetOps \cup ListOps
   /\ lastPort.called
   /\ lastPort.resp.Decision = DecisionDeny)
  => /\ lastOut.calls = <<>>
     /\ lastOut.widgets = <<>>
     /\ lastOut.err # ""
     /\ lastPort.err = "" => lastOut.err = ErrUnauthorized

C4_Witness ==
  /\ lastOp = "ListWidgets"
  /\ lastPort.called
  /\ lastPort.err = ""
  /\ lastPort.resp.Decision = DecisionDeny
  /\ lastOut.err = ErrUnauthorized
  /\ lastOut.calls = <<>>
  /\ widgets # <<>>

\* C5: FindByID and FindAll with a filter whose language is non-empty and
\* not supported return an error other than ErrNotFound, whatever the
\* store holds and whatever id is asked for.
C5_CapabilityError ==
  (/\ lastOp \in {"FindByID", "FindAll"}
   /\ lastReq.Expr.Language \notin {"", "cel"})
  => lastOut.err \notin {"", ErrNotFound}

\* C6: every response of LocalAuthz.Check and LocalAuthz.ListObjects, with
\* or without an error, has a condition with a non-empty language exactly
\* when its decision is Conditional, and the zero condition otherwise.
C6_WellFormedResponse ==
  lastPort.called
  => /\ (lastPort.resp.Condition.Language # "")
          <=> (lastPort.resp.Decision = DecisionConditional)
     /\ lastPort.resp.Decision # DecisionConditional
          => lastPort.resp.Condition = ZeroExpression

C6_Witness ==
  /\ lastOp = "Check"
  /\ lastPort.called
  /\ lastPort.err = ""
  /\ lastPort.resp.Decision = DecisionConditional
  /\ lastPort.resp.Condition.Language = "cel"

\* the filter is a boolean expression over the columns of a widget: it
\* evaluates without error on every stored record and on a blank one
BooleanFilter(expr) ==
  /\ expr.Language = "cel"
  /\ evaluateCEL(ProbeData, expr.Expression).err = ""
  /\ \A id \in DOMAIN widgets : evaluateCEL(widgets[id], expr.Expression).err = ""

Matching(expr) ==
  {id \in DOMAIN widgets : evaluateCEL(widgets[id], expr.Expression).matches}

Restricted(S) == [id \in S |-> widgets[id]]

Elements(seq) == {seq[i] : i \in 1..Len(seq)}

OwnedBy(u) == {id \in DOMAIN widgets : widgets[id].OwnerID = u}

\* C8: ListWidgets for user u returns, without error, exactly the stored
\* widgets whose owner is u; with nothing stored, the empty list.
C8_ListsOwnWidgets ==
  ByUser(ListOps)
  => /\ lastOut.err = ""
     /\ Len(lastOut.widgets) = Cardinality(OwnedBy(lastReq.Subject.ID))
     /\ Elements(lastOut.widgets)
          = {WidgetResponse(DeserializeWidget(widgets[id])) :
               id \in OwnedBy(lastReq.Subject.ID)}

\* C9: GetWidget by user u for id w returns the widget if and only if w is
\* stored and its owner is u, and ErrNotFound with no widget otherwise.
C9_GetsOwnWidgetOnly ==
  ByUser(GetOps)
  => IF lastReq.WidgetID \in OwnedBy(lastReq.Subject.ID)
       THEN /\ lastOut.err = ""
            /\ lastOut.widgets
                 = <<WidgetResponse(DeserializeWidget(widgets[lastReq.WidgetID]))>>
     ELSE /\ lastOut.err = ErrNotFound
          /\ lastOut.widgets = <<>>

\* the last operation asked LocalAuthz.Check for "create" on a widget
CheckedCreate ==
  \/ /\ ByUser({"Check"})
     /\ lastReq.Verb = "create"
     /\ lastReq.Object.kind = "ResourceReference"
     /\ lastReq.Object.Type = "widget"
  \/ ByUser(CreateOps)

\* C10: Check with verb "create", a subject user u and an object widget
\* returns Allow, no error, and a requester context whose Sub claim reads
\* back as (u, true).
C10_CreateAllowsWithSub ==
  CheckedCreate
  => /\ lastPort.err = ""
     /\ lastPort.resp.Decision = DecisionAllow
     /\ Sub_Get(lastPort.resp.Context.RequesterContext)
          = [ok |-> TRUE, value |-> StringValue(lastReq.Subject.ID)]

C10_Witness ==
  /\ lastOp = "Check"
  /\ CheckedCreate
  /\ lastReq.Subject.ID = QuoteID
  /\ lastPort.resp.Decision = DecisionAllow

\* a store that holds one widget, owned by owner
OneWidget(owner) ==
  InMemory_Save(<<>>, NewWidget(<<"1">>, <<"n">>, <<"d">>, owner))

\* the repository r, given the condition, finds the widget of owner
Admits(r, owner, condition) ==
  Repo_FindByID(r, OneWidget(owner), <<"1">>, condition)
    = Found(<<NewWidget(<<"1">>, <<"n">>, <<"d">>, owner)>>, "")

\* the last operation asked LocalAuthz for a read decision on widgets
AskedRead ==
  \/ /\ ByUser({"Check"})
     /\ lastReq.Verb = "read"
     /\ lastReq.Object.kind = "ResourceReference"
     /\ lastReq.Object.Type = "widget"
  \/ /\ ByUser({"ListObjects"})
     /\ lastReq.Verb = "read"
     /\ lastReq.ObjectType = "widget"

\* C11: Check with verb "read" and ListObjects for widgets, for a subject
\* user u, return Conditional with a condition that a repository finds
\* true of a record exactly when the record's owner is u, whatever
\* characters u contains.
C11_ConditionIsOwnership ==
  AskedRead
  => /\ lastPort.err = ""
     /\ lastPort.resp.Decision = DecisionConditional
     /\ \A r \in {"InMemory", "Postgres"}, owner \in UserIDs :
          Admits(r, owner, lastPort.resp.Condition) <=> (owner = lastReq.Subject.ID)

\* the subject of the last request is not a user reference
MalformedSubject ==
  lastReq.Subject.kind # "ResourceReference" \/ lastReq.Subject.Type # "user"

MalformedCheck ==
  /\ lastOp = "Check"
  /\ \/ MalformedSubject
     \/ lastReq.Object.kind # "ResourceReference"
     \/ lastReq.Object.Type # "widget"
     \/ lastReq.Verb \notin {"create", "read"}

\* C12: a Check request with a malformed subject or object or an
\* unrecognized verb returns an error; the service that receives it fails
\* with the authorization error, not with ErrUnauthorized, and the handler
\* does not answer 403 as it does for a denied request.
C12_MalformedCheckIsError ==
  /\ MalformedCheck => lastPort.err # ""
  /\ (lastOp \in GetOps \cup ListOps \cup CreateOps /\ lastPort.called /\ MalformedSubject)
       => /\ lastPort.err # ""
          /\ lastOut.err = "authorization check failed"
          /\ lastOut.err # ErrUnauthorized
          /\ lastOut.calls = <<>>
          /\ lastHTTP.status # 403

C12_Witness ==
  /\ MalformedCheck
  /\ ~MalformedSubject
  /\ lastReq.Object.Type = "widget"
  /\ lastReq.Verb = "delete"
  /\ lastPort.err = "unknown verb"

\* C13: a ListObjects request with a malformed subject, an unsupported
\* object type or a verb the policy does not define returns an error.
C13_MalformedListIsError ==
  (/\ lastOp = "ListObjects"
   /\ \/ MalformedSubject
      \/ lastReq.ObjectType # "widget"
      \/ lastReq.Verb \notin {"create", "read"})
  => lastPort.err # ""

\* the accessor's Set was the last change of the container, which was not
\* nil, and nothing but its Get has been called since
AfterSet(kind) ==
  /\ claim.kind = kind
  /\ access.op \in {"Set", "Get"}
  /\ access.fresh
  /\ ~access.before.nil

\* Get of the accessor returns, and has returned if it was called, the
\* value Set stored
ReadsBack ==
  /\ Claim_Get(claim, claims) = Gotten(access.value, TRUE)
  /\ access.op = "Get" => access.got = Gotten(access.value, TRUE)

RECURSIVE Blocked(_, _, _)
Blocked(path, m, i) ==
  /\ i < Len(path)
  /\ path[i] \in DOMAIN m
  /\ IF m[path[i]].type # "map" THEN TRUE ELSE Blocked(path, m[path[i]].m, i + 1)

RECURSIVE Chain(_, _, _)
Chain(path, i, value) ==
  IF i = Len(path) THEN Put(<<>>, path[i], value)
  ELSE Put(<<>>, path[i], MapValue(Chain(path, i + 1, value)))

\* every entry of the mapping `before` off the path is in `after` with its
\* value, and so for the mappings the path walks through
RECURSIVE Survive(_, _, _, _)
Survive(path, before, after, i) ==
  /\ \A k \in (DOMAIN before) \ {path[i]} : k \in DOMAIN after /\ after[k] = before[k]
  /\ (i < Len(path) /\ path[i] \in DOMAIN before /\ before[path[i]].type = "map")
       => /\ path[i] \in DOMAIN after
          /\ after[path[i]].type = "map"
          /\ Survive(path, before[path[i]].m, after[path[i]].m, i + 1)

\* C16: Nested(p1..pn).Set(c, v) on an empty container leaves exactly the
\* chain p1 -> {... {pn -> v}} and Get returns (v, true); on any container
\* the mappings found along the path are reused and keep their other
\* entries.
C16_NestedCreation ==
  AfterSet("Nested")
  => /\ access.before = MakeClaims
          => (claims.m = Chain(claim.path, 1, access.value) /\ ReadsBack)
     /\ Survive(claim.path, access.before.m, claims.m, 1)

C16_Witness ==
  /\ AfterSet("Nested")
  /\ access.op = "Set"
  /\ access.before = MakeClaims
  /\ Len(claim.path) = 3
  /\ claims.m = Chain(claim.path, 1, access.value)

\* C17: Nested(path).Set(c, v) on a container in which an intermediate
\* segment of the path holds a value that is not a mapping leaves the
\* whole container as it was.
C17_NestedBlocked ==
  (AfterSet("Nested") /\ Blocked(claim.path, access.before.m, 1))
  => claims = access.before

C17_Witness ==
  /\ AfterSet("Nested")
  /\ access.op = "Set"
  /\ Len(claim.path) = 3
  /\ claim.path[1] \in DOMAIN access.before.m
  /\ access.before.m[claim.path[1]].type = "map"
  /\ Blocked(claim.path, access.before.m, 1)
  /\ claims = access.before

\* C18: Get of any accessor on a nil container returns (zero, false); Set
\* on a nil container stores nothing and leaves the container nil.
C18_NilTolerance ==
  /\ (access.op = "Get" /\ claims.nil) => access.got = Gotten(ZeroValue(claim.T), FALSE)
  /\ (access.op = "Set" /\ access.before.nil) =>
       (claims.nil /\ DOMAIN claims.m = {})

C18_Witness ==
  /\ access.op = "Set"
  /\ access.before.nil
  /\ claim.kind = "Nested"
  /\ Len(claim.path) = 2
  /\ claims = NilClaims

\* what the first n segments of path lead to from the container: the
\* container's mapping for n = 0, the value at segment n if the segments
\* before it lead to a mapping that has it, nothing otherwise
RECURSIVE Reached(_, _, _)
Reached(path, n, container) ==
  IF n = 0 THEN [value |-> MapValue(container.m), present |-> TRUE]
  ELSE IF /\ Reached(path, n - 1, container).present
          /\ Reached(path, n - 1, container).value.type = "map"
          /\ path[n] \in DOMAIN Reached(path, n - 1, container).value.m
    THEN [value |-> Reached(path, n - 1, container).value.m[path[n]], present |-> TRUE]
  ELSE [value |-> NoValue, present |-> FALSE]

Resolves(path, T, container) ==
  /\ Reached(path, Len(path), container).present
  /\ Reached(path, Len(path), container).value.type = T

\* C19: Get returns (v, true) exactly when every intermediate segment is
\* present and holds a mapping and the final key holds a value v of type
\* T, and (zero, false) in every other case.
C19_GetExact ==
  access.op = "Get"
  => access.got = IF Resolves(claim.path, claim.T, claims)
                    THEN Gotten(Reached(claim.path, Len(claim.path), claims).value, TRUE)
                  ELSE Gotten(ZeroValue(claim.T), FALSE)

C19_Witness ==
  /\ access.op = "Get"
  /\ claim.kind = "Nested"
  /\ Len(claim.path) = 2
  /\ claim.path[1] \in DOMAIN claims.m
  /\ claims.m[claim.path[1]].type = "map"
  /\ claim.path[2] \in DOMAIN claims.m[claim.path[1]].m
  /\ claims.m[claim.path[1]].m[claim.path[2]].type # claim.T
  /\ ~access.got.ok

\* C20: Nested panics at construction exactly when it is given no path
\* segment, and then there is no accessor whose Get or Set could be
\* called; TopLevel never panics.
C20_ConstructionGuard ==
  /\ access.op = "Nested"
       => /\ access.panic <=> (Len(access.path) = 0)
          /\ access.panic => claim = NoClaim
          /\ ~access.panic => (claim.kind = "Nested" /\ claim.path = access.path)
  /\ access.op = "TopLevel" => (~access.panic /\ claim.kind = "TopLevel")
  /\ access.op \in {"Get", "Set"} => (Len(claim.path) >= 1 /\ ~access.panic)

C20_Witness ==
  /\ access.op = "Nested"
  /\ access.panic
  /\ access.path = <<>>
  /\ claim = NoClaim

\* what the port answers, in the current state, to the request the last
\* operation gave it
AskedAgain ==
  IF lastOp = "Check"
    THEN Port_Check(CheckRequest(lastReq.Subject, lastReq.Verb, lastReq.Object))
  ELSE IF lastOp = "ListObjects"
    THEN Port_ListObjects(ListObjectsRequest(lastReq.Subject, lastReq.Verb,
                                             lastReq.ObjectType))
  ELSE IF lastOp \in CreateOps THEN CreateCheck(lastReq)
  ELSE IF lastOp \in GetOps THEN ReadCheck(lastReq)
  ELSE ReadList(lastReq)

ErrCanceled == "context canceled"

\* C22: a Check or ListObjects call whose context is canceled returns a
\* cancellation error and no decision.
C22_Cancellation ==
  (lastOp \in {"Check", "ListObjects"} /\ lastReq.Canceled)
  => /\ lastPort.err = ErrCanceled
     /\ lastPort.resp.Decision = DecisionUnknown

\* FindByID(id) with the zero expression on the store
Lookup(store, id) == Repo_FindByID(repo, store, id, ZeroExpression)

\* the widget the last Save was given
Saved ==
  NewWidget(lastReq.WidgetID, lastReq.Name, lastReq.Description, lastReq.OwnerID)

\* C23: every Save(w) step leaves a store with one record per id, keyed by
\* the record's own id, in which FindByID(w.id) with the empty expression
\* returns the name, description and owner just saved, whatever was stored
\* under that id before, and in which FindByID of every other id returns
\* what it returned before the step.
C23_UpsertLastWriteWins ==
  [][lastOp' = "Save"
       => /\ Lookup(widgets', lastReq'.WidgetID) = Found(<<Saved'>>, "")
          /\ DOMAIN widgets' = (DOMAIN widgets) \cup {lastReq'.WidgetID}
          /\ \A id \in DOMAIN widgets' : widgets'[id].ID = id
          /\ \A id \in WidgetIDs \ {lastReq'.WidgetID} :
               Lookup(widgets', id) = Lookup(widgets, id)]_vars

C23_Witness ==
  /\ lastOp = "Save"
  /\ Cardinality(DOMAIN widgets) = NumWidgetIDs
  /\ lastReq.Name = <<"m">>
  /\ lastReq.OwnerID = <<"b">>
  /\ Lookup(widgets, lastReq.WidgetID) = Found(<<Saved>>, "")
  /\ \E id \in DOMAIN widgets : widgets[id].OwnerID = <<"a">>

\* C24: with an expression whose language is empty, whatever its source
\* text (a text the evaluator would reject included), FindByID returns the
\* stored record of the id without error, or ErrNotFound if the id is not
\* stored, and FindAll returns every stored record once, without error.
C24_EmptyLanguageNoFilter ==
  /\ (lastOp = "FindByID" /\ lastReq.Expr.Language = "")
       => Got = IF lastReq.WidgetID \in DOMAIN widgets
                  THEN Found(<<DeserializeWidget(widgets[lastReq.WidgetID])>>, "")
                ELSE Found(<<>>, ErrNotFound)
  /\ (lastOp = "FindAll" /\ lastReq.Expr.Language = "")
       => /\ lastOut.err = ""
          /\ Len(lastOut.widgets) = Cardinality(DOMAIN widgets)
          /\ Elements(lastOut.widgets)
               = {DeserializeWidget(widgets[id]) : id \in DOMAIN widgets}

C24_Witness ==
  /\ lastOp = "FindByID"
  /\ lastReq.Expr = Expression("", OwnerExpression(QuoteID))
  /\ lastReq.WidgetID \in DOMAIN widgets
  /\ widgets[lastReq.WidgetID].OwnerID = <<"b">>
  /\ Len(lastOut.widgets) = 1
  /\ lastOut.err = ""

\* from segment i on, `after` differs from `before` only on the path: the
\* entries off the path are the same entries, a mapping the path walks
\* through is kept, a mapping created for a missing segment holds nothing
\* but the rest of the path, and a segment that blocks the walk is kept
RECURSIVE OnlyPath(_, _, _, _, _)
OnlyPath(path, before, after, i, value) ==
  /\ (DOMAIN after) \ {path[i]} = (DOMAIN before) \ {path[i]}
  /\ \A k \in (DOMAIN before) \ {path[i]} : after[k] = before[k]
  /\ path[i] \in DOMAIN after
  /\ IF i = Len(path) THEN after[path[i]] = value
     ELSE IF path[i] \notin DOMAIN before
       THEN after[path[i]] = MapValue(Chain(path, i + 1, value))
     ELSE IF before[path[i]].type # "map" THEN after[path[i]] = before[path[i]]
     ELSE /\ after[path[i]].type = "map"
          /\ OnlyPath(path, before[path[i]].m, after[path[i]].m, i + 1, value)

\* C25: after TopLevel(k).Set or Nested(path).Set on a container that is
\* not nil, the container differs from what it was only in the entries on
\* the path (every other key, and every sibling entry of the mappings
\* walked through, is there with its value, and nothing else was added);
\* and no step that changes one of two separately created containers
\* changes the other.
C25_SetChangesOnlyTarget ==
  /\ []((access.op = "Set" /\ ~access.before.nil)
         => OnlyPath(claim.path, access.before.m, claims.m, 1, access.value))
  /\ [][/\ claims' # claims => other' = other
        /\ other' # other => claims' = claims]_vars

C25_Witness ==
  /\ access.op = "Set"
  /\ claim.kind = "TopLevel"
  /\ DOMAIN access.before.m # {}
  /\ claim.path[1] \notin DOMAIN access.before.m
  /\ ~other.nil
  /\ claim.path[1] \in DOMAIN other.m
  /\ other.m[claim.path[1]] # claims.m[claim.path[1]]

\* C26: whatever response the port returns, GetWidget and ListWidgets
\* return stored data only when its decision is Allow or Conditional, and
\* with the decision Unknown they return no data and make no repository
\* call.
C26_FailClosed ==
  (lastOp \in GetOps \cup ListOps /\ lastPort.called)
  => /\ lastOut.widgets # <<>>
          => lastPort.resp.Decision \in {DecisionAllow, DecisionConditional}
     /\ lastPort.resp.Decision = DecisionUnknown
          => (lastOut.widgets = <<>> /\ lastOut.calls = <<>>)

\* the port let the last CreateWidget through: no error, the decision
\* Allow, and a Sub claim of string type in the requester context
MayCreate ==
  /\ lastPort.called
  /\ lastPort.err = ""
  /\ lastPort.resp.Decision = DecisionAllow
  /\ Sub_Get(lastPort.resp.Context.RequesterContext).ok

\* the widget of the last request, owned by the Sub claim of the response
Created ==
  NewWidget(lastReq.WidgetID, lastReq.Name, lastReq.Description,
            Sub_Get(lastPort.resp.Context.RequesterContext).value.s)

\* C27: a CreateWidget step saves exactly when Check returned no error,
\* the decision Allow and a requester context with a Sub claim of string
\* type; it then makes one Save call and the store holds, under the
\* requested id, the requested name and description with the Sub value as
\* owner, every other record being kept. In every other case (an error, a
\* decision Deny, Conditional or Unknown, a missing Sub or one of another
\* type, a request the handler rejects) it returns an error, makes no
\* repository call and leaves the store as it was.
C27_CreateOnlyOnAllow ==
  [][lastOp' \in CreateOps
       => IF MayCreate'
            THEN /\ lastOut'.err = ""
                 /\ lastOut'.calls = <<Call("Save", lastReq'.WidgetID, ZeroExpression)>>
                 /\ lastOut'.widgets = <<WidgetResponse(Created')>>
                 /\ widgets' = Repo_Save(repo, widgets, Created')
                 /\ widgets'[lastReq'.WidgetID] = Serialize(Created')
          ELSE /\ lastOut'.err # "" \/ lastHTTP'.status = 401
               /\ lastOut'.widgets = <<>>
               /\ lastOut'.calls = <<>>
               /\ widgets' = widgets]_vars

C27_Witness ==
  /\ lastOp = "CreateWidget"
  /\ MayCreate
  /\ lastOut.err = ""
  /\ lastReq.WidgetID \in DOMAIN widgets
  /\ widgets[lastReq.WidgetID] = Serialize(Created)
  /\ widgets[lastReq.WidgetID].OwnerID = <<"a">>

\* GetWidget for id by the user u succeeds on the store
Gets(store, u, id) ==
  WidgetService_GetWidget(repo, store,
    LocalAuthz_Check(CheckRequest(ResourceReference("user", u), "read",
                                  ResourceReference("widget", id))),
    GetWidgetRequest(ResourceReference("user", u), id)).err = ""

\* C28: no CreateWidget, GetWidget or ListWidgets step, by whatever user,
\* changes the owner of a stored widget or removes it, and the owner's
\* GetWidget for it succeeds after the step if it did before.
C28_OwnershipStable ==
  [][lastOp' \in CreateOps \cup GetOps \cup ListOps
       => \A id \in DOMAIN widgets :
            /\ id \in DOMAIN widgets'
            /\ widgets'[id].OwnerID = widgets[id].OwnerID
            /\ Gets(widgets, widgets[id].OwnerID, id)
                 => Gets(widgets', widgets[id].OwnerID, id)]_vars

\* the goroutines whose find has its result and is about to return it
Returning == {g \in Goroutines : running[g].pc = "RUnlock"}

\* what the find of goroutine g returns is what the method returns when it
\* runs alone on the store as it is now
Sequential(g) ==
  IF running[g].op = "FindByID"
    THEN running[g].found = InMemory_FindByID(widgets, running[g].id, running[g].expr)
  ELSE \E order \in Orders(DOMAIN widgets) :
         running[g].found = InMemory_FindAll(widgets, order, running[g].expr)

\* C29: with Save, FindByID and FindAll called from several goroutines,
\* every record a find returns is the complete data of one Save, never
\* words of two Saves and at most one record per id; it passes the filter
\* the find was given; and the find returns what it returns when it runs
\* alone on the store, which holds complete records whenever no Save holds
\* the lock.
C29_FindsSeeWholeSaves ==
  /\ \A g \in Returning :
       /\ \A w \in Elements(running[g].found.widgets) :
            /\ w \in SavedWidgets
            /\ running[g].expr.Language # ""
                 => evaluateExpression(Serialize(w), running[g].expr) = CELResult(TRUE, "")
       /\ \A i, j \in 1..Len(running[g].found.widgets) :
            running[g].found.widgets[i].id = running[g].found.widgets[j].id => i = j
       /\ Sequential(g)
  /\ mu.writer = 0 => \A id \in DOMAIN widgets : DeserializeWidget(widgets[id]) \in SavedWidgets

C29_Witness ==
  \E g \in Returning, h \in Goroutines :
    /\ running[g].op = "FindAll"
    /\ running[g].expr.Language = "cel"
    /\ Len(running[g].found.widgets) = 1
    /\ DOMAIN widgets = SavedIDs
    /\ running[h].op = "Save"
    /\ running[h].pc = "Lock"
    /\ running[h].id # running[g].found.widgets[1].id
    /\ running[h].widget.ownerID = <<"a">>
    /\ widgets[running[h].id].OwnerID = <<"b">>

\* C30: Nested[T](k) with the single segment k behaves as TopLevel[T](k):
\* on the container as it is now and on the nil container, for every key,
\* type and value, Get returns the same (value, ok) and Set leaves the same
\* container; and what the last Get or Set through a constructed
\* single-segment Nested accessor did is what TopLevel's Get or Set does.
C30_SingleSegmentIsTopLevel ==
  /\ \A c \in {claims, NilClaims}, k \in Keys, T \in Types :
       /\ Claim_Get(Nested(T, <<k>>), c) = Claim_Get(TopLevel(T, k), c)
       /\ \A value \in ValuesOf(T) :
            Claim_Set(Nested(T, <<k>>), c, value) = Claim_Set(TopLevel(T, k), c, value)
  /\ (claim.kind = "Nested" /\ Len(claim.path) = 1) =>
       /\ access.op = "Get" => access.got = TopLevel_Get(claim.path[1], claim.T, claims)
       /\ access.op = "Set" =>
            claims = TopLevel_Set(claim.path[1], claim.T, access.before, access.value)

\* a single-segment Nested accessor has set a value and read it back, in a
\* container that also holds a value of another type under the other key
C30_Witness ==
  /\ claim.kind = "Nested"
  /\ Len(claim.path) = 1
  /\ access.op = "Get"
  /\ access.fresh
  /\ access.got.ok
  /\ \E k \in DOMAIN claims.m : k # claim.path[1] /\ claims.m[k].type \notin {claim.T, "map"}

====
